---- MODULE Spec2Model ----
(***************************************************************************)
(* NAT port-forwarding manager (apps/proxmox-nat/nat_manager.py).          *)
(*                                                                         *)
(* State: the two SQLite tables as the manager's connection sees them, the *)
(* committed database file, the live iptables nat/PREROUTING rules, the    *)
(* saved rules file, the kernel forwarding switch, the listening sockets   *)
(* that `ss` reports, and the last file written by export.  One action per *)
(* public method of NATManager; every action is the whole method,          *)
(* including the iptables calls, the save and the commit it makes.         *)
(***************************************************************************)
EXTENDS Integers, Sequences, FiniteSets, TLC

VARIABLES
    port_mappings,   \* table port_mappings as the open connection reads it (rows in rowid order)
    db_file,         \* committed rows of port_mappings in the database file
    reserved_ports,  \* table reserved_ports: set of [port, description], port is the primary key
    iptables,        \* live rules of the nat table, in kernel order
    rules_v4,        \* content of /etc/iptables/rules.v4 (last successful save)
    ip_forward,      \* net.ipv4.ip_forward
    listening,       \* local ports `ss -tulpn` reports
    export_file,     \* entries of the JSON file written by export_mappings
    backup_dir,      \* the backup directories: timestamp -> copy of the database file
                     \* (both tables) and the dump of the rules taken with it
    adding,          \* per process, the add_container call it is in: the step reached and
                     \* the call's local values
    faults,          \* calls in which a command has failed so far
    last,            \* the last call: method, arguments that matter, outcome, return value,
                     \* and whether it repeats the call before it (again, for rebuild)
    snap             \* state before the last successful non-temporary add, kept while the
                     \* matching remove follows it directly

vars == <<port_mappings, db_file, reserved_ports, iptables, rules_v4, ip_forward,
          listening, export_file, backup_dir, adding, faults, last, snap>>

----------------------------------------------------------------------------
(* Bounds of the model. *)

MaxPorts == 2   \* largest num_ports a caller asks for
MaxRows == 3    \* cap on the rows of port_mappings
MaxRules == 3   \* cap on the live rules
MaxFaults == 1  \* cap on the calls in which a command fails
MaxBackups == 1 \* number of timestamps the clock shows while backups are taken
MaxProcesses == 2 \* processes that run add_container at the same time
MaxRun == 100   \* length of the run of bound ports the block search has to get past
MaxSlots == 6   \* largest num_ports of the adds that are followed slot by slot
BigBlock == 1024 \* num_ports of the assign_ports call followed beyond port 65535

(* Program constants. *)

port_start == 50000

network_interface == <<"v", "m", "b", "r", "0">>

INTERNAL_PORTS_DEFAULT == <<22, 80, 443, 8080>>

PROTOCOLS_DEFAULT == <<"tcp", "tcp", "tcp", "tcp">>

\* Python None (SQL NULL) for a description.
None == "None"

----------------------------------------------------------------------------
(* Inputs the callers draw from.  A list argument that is None and one     *)
(* that is empty take the same branches in add_container (both are falsy), *)
(* so <<>> stands for both.                                                *)

OwnerA == <<10, 0, 0, 5>>

OwnerB == <<10, 0, 0, 9>>

OwnerBad == <<10, 0, 0, 256>>

Owners == {OwnerA, OwnerB, OwnerBad}

Descriptions == {None, "web"}

Request(mode, num_ports, internal_ports, external_ports, protocols) ==
    [mode |-> mode, num_ports |-> num_ports, internal_ports |-> internal_ports,
     external_ports |-> external_ports, protocols |-> protocols]

\* The allocator's requests of automatic mode, for 1..MaxPorts ports.
AllocatorRequests == {Request("automatic", n, <<>>, <<>>, <<>>) : n \in 1..MaxPorts}

\* The request made with temporary=True as well.
TemporaryRequests == {Request("automatic", 1, <<>>, <<>>, <<>>)}

\* The same external port under tcp and udp.
TwoProtocolRequest == Request("manual", 2, <<80, 80>>, <<50000, 50000>>, <<"tcp", "udp">>)

\* Automatic mode: the allocator for 0..MaxPorts ports, and one caller-supplied port.
AutomaticRequests ==
    {Request("automatic", n, <<>>, <<>>, <<>>) : n \in 0..MaxPorts}
        \cup {Request("automatic", MaxPorts, <<>>, <<50000>>, <<>>)}

\* Manual mode: with and without internal ports, as many as num_ports and fewer; the
\* same external port under tcp and udp; fewer protocols than ports; fewer internal
\* ports than num_ports and as many external ports.
ManualRequests ==
    {Request("manual", n, is, <<>>, <<>>) : n \in 1..MaxPorts, is \in {<<>>, <<80>>}}
        \cup {TwoProtocolRequest, Request("manual", 2, <<80, 81>>, <<>>, <<"udp">>),
              Request("manual", MaxPorts, <<80>>, <<50000>>, <<>>)}

AddRequests ==
    AutomaticRequests \cup ManualRequests \cup {Request("bridge", 1, <<>>, <<>>, <<>>)}

ReserveMenu == {<<50000, 50000>>}

UnreserveMenu == {<<50000>>}

ReserveDescriptions == {None, "ssh"}

SocketPorts == {50001}

----------------------------------------------------------------------------
(* Text of an address, as SQLite compares it in ORDER BY container_ip.     *)

RECURSIVE Digits(_)
Digits(n) == IF n < 10 THEN <<48 + n>> ELSE Digits(n \div 10) \o <<48 + (n % 10)>>

IpText(ip) ==
    Digits(ip[1]) \o <<46>> \o Digits(ip[2]) \o <<46>> \o Digits(ip[3]) \o <<46>> \o Digits(ip[4])

RECURSIVE TextLess(_, _)
TextLess(a, b) ==
    IF b = <<>> THEN FALSE
    ELSE IF a = <<>> THEN TRUE
    ELSE IF Head(a) # Head(b) THEN Head(a) < Head(b)
    ELSE TextLess(Tail(a), Tail(b))

IsPrefix(p, s) == Len(p) <= Len(s) /\ SubSeq(s, 1, Len(p)) = p

Min(a, b) == IF a < b THEN a ELSE b

\* zip(external_ports, internal_ports, protocols): stops at the shortest list.
Zip3(es, is, ps) ==
    [i \in 1..Min(Len(es), Min(Len(is), Len(ps))) |->
        [external_port |-> es[i], internal_port |-> is[i], protocol |-> ps[i]]]

SeqToSet(s) == {s[i] : i \in 1..Len(s)}

----------------------------------------------------------------------------
(* Rows, rules and the calls' records. *)

\* An INSERT of add_container / import_mappings: temporary takes its column default 0.
Row(container_ip, external_port, internal_port, protocol, description) ==
    [container_ip |-> container_ip, external_port |-> external_port,
     internal_port |-> internal_port, protocol |-> protocol,
     temporary |-> 0, description |-> description]

\* The rule `iptables -t nat -A PREROUTING -i <interface> -p <protocol> --dport <port>
\* -j DNAT --to-destination <ip>:<port>` adds, as iptables-save prints it.
DnatRule(protocol, external_port, container_ip, internal_port) ==
    [chain |-> "PREROUTING", iface |-> network_interface, protocol |-> protocol,
     dport |-> external_port, jump |-> "DNAT",
     to_ip |-> container_ip, to_port |-> internal_port]

\* request: the arguments of an add; events: what the call did to firewall, saved rules
\* and database, in the order in which it did it.
NoCall ==
    [op |-> "none", owner |-> <<>>, outcome |-> "ok", ret |-> 0, mappings |-> <<>>,
     allocated |-> FALSE, assigned |-> <<>>, temporary |-> FALSE, ports |-> <<>>,
     description |-> None, again |-> FALSE, timestamp |-> 0,
     request |-> Request("none", 0, <<>>, <<>>, <<>>), events |-> <<>>]

NoSnap ==
    [stage |-> "none", owner |-> <<>>, port_mappings |-> <<>>, reserved_ports |-> {},
     iptables |-> <<>>, preexisting |-> FALSE, delete_failed |-> FALSE]

RowsOf(pm, container_ip) == SelectSeq(pm, LAMBDA r : r.container_ip = container_ip)

RowsNotOf(pm, container_ip) == SelectSeq(pm, LAMBDA r : r.container_ip # container_ip)

TriplesOf(rows) ==
    [i \in 1..Len(rows) |->
        [external_port |-> rows[i].external_port, internal_port |-> rows[i].internal_port,
         protocol |-> rows[i].protocol]]

----------------------------------------------------------------------------
(* Helpers of NATManager. *)

\* ^(\d{1,3}\.){3}\d{1,3}$ and every octet 0..255
validate_ip(ip) ==
    /\ Len(ip) = 4
    /\ \A i \in 1..4 : ip[i] \in 0..999
    /\ \A i \in 1..4 : 0 <= ip[i] /\ ip[i] <= 255

is_port_in_use(lst, port) == port \in lst

\* The check of a block without the reserved ports.
BlockConflictIgnoringReserved(assigned_ports, reserved, lst, next_port, num_ports) ==
    \E i \in 0..(num_ports - 1) :
        \/ (next_port + i) \in assigned_ports
        \/ is_port_in_use(lst, next_port + i)

BlockConflict(assigned_ports, reserved, lst, next_port, num_ports) ==
    \E i \in 0..(num_ports - 1) :
        \/ (next_port + i) \in assigned_ports
        \/ is_port_in_use(lst, next_port + i)
        \/ (next_port + i) \in reserved

\* A search that steps over the ports in use one by one instead of starting a new block.
BlockSkippingBusyPorts(assigned_ports, reserved, lst, next_port, num_ports) ==
    [i \in 1..num_ports |->
        next_port + (i - 1)
            + Cardinality({q \in next_port..(next_port + i - 1) :
                              BlockConflict(assigned_ports, reserved, lst, q, 1)})]

RECURSIVE BlockSearch(_, _, _, _, _)
BlockSearch(assigned_ports, reserved, lst, next_port, num_ports) ==
    IF ~BlockConflict(assigned_ports, reserved, lst, next_port, num_ports)
    THEN [i \in 1..num_ports |-> next_port + (i - 1)]
    ELSE BlockSearch(assigned_ports, reserved, lst, next_port + num_ports, num_ports)

assign_ports(pm, rp, lst, num_ports) ==
    BlockSearch({pm[i].external_port : i \in 1..Len(pm)}, {r.port : r \in rp},
                lst, port_start, num_ports)

iptables_rule_exists(fw, protocol, external_port, container_ip, internal_port) ==
    \E i \in 1..Len(fw) : fw[i] = DnatRule(protocol, external_port, container_ip, internal_port)

\* iptables-save > /etc/iptables/rules.v4; a failure is logged and swallowed.
save_iptables_rules(fw, saved, save_ok) == IF save_ok THEN fw ELSE saved

\* The loop of setup_iptables_rules from triple i on; the fail_at-th triple's
\* `iptables -A` exits non-zero (check=True raises).
RECURSIVE InsertRules(_, _, _, _, _)
InsertRules(fw, container_ip, triples, i, fail_at) ==
    IF i > Len(triples) THEN [iptables |-> fw, raised |-> FALSE]
    ELSE LET t == triples[i] IN
         IF iptables_rule_exists(fw, t.protocol, t.external_port, container_ip, t.internal_port)
         THEN InsertRules(fw, container_ip, triples, i + 1, fail_at)
         ELSE IF i = fail_at THEN [iptables |-> fw, raised |-> TRUE]
         ELSE InsertRules(Append(fw, DnatRule(t.protocol, t.external_port, container_ip,
                                              t.internal_port)),
                          container_ip, triples, i + 1, fail_at)

\* fail_at = Len(triples) + 1: `sysctl -w net.ipv4.ip_forward=1` exits non-zero.
setup_iptables_rules(fw, fwd, saved, container_ip, triples, save_rules, fail_at, save_ok) ==
    LET ins == InsertRules(fw, container_ip, triples, 1, fail_at) IN
    IF ins.raised \/ fail_at = Len(triples) + 1
    THEN [iptables |-> ins.iptables, ip_forward |-> fwd, rules_v4 |-> saved, raised |-> TRUE]
    ELSE [iptables |-> ins.iptables, ip_forward |-> TRUE,
          rules_v4 |-> IF save_rules THEN save_iptables_rules(ins.iptables, saved, save_ok)
                       ELSE saved,
          raised |-> FALSE]

\* What setup_iptables_rules does, statement by statement, from triple i on.
RECURSIVE InsertEvents(_, _, _, _, _)
InsertEvents(fw, container_ip, triples, i, fail_at) ==
    IF i > Len(triples) THEN <<>>
    ELSE LET t == triples[i] IN
         IF iptables_rule_exists(fw, t.protocol, t.external_port, container_ip, t.internal_port)
         THEN <<"rule_exists">> \o InsertEvents(fw, container_ip, triples, i + 1, fail_at)
         ELSE IF i = fail_at THEN <<"insert_failed">>
         ELSE <<"insert">> \o
              InsertEvents(Append(fw, DnatRule(t.protocol, t.external_port, container_ip,
                                               t.internal_port)),
                           container_ip, triples, i + 1, fail_at)

setup_events(fw, container_ip, triples, save_rules, fail_at, save_ok) ==
    LET ins == InsertEvents(fw, container_ip, triples, 1, fail_at) IN
    IF ins # <<>> /\ ins[Len(ins)] = "insert_failed" THEN ins
    ELSE IF fail_at = Len(triples) + 1 THEN ins \o <<"forward_failed">>
    ELSE ins \o <<"forward">> \o
         (IF save_rules THEN <<IF save_ok THEN "save" ELSE "save_failed">> ELSE <<>>)

\* A delete that takes every rule of the rule's port and protocol, whatever its
\* destination.
RemoveAtPort(fw, rule) ==
    SelectSeq(fw, LAMBDA r : ~(r.dport = rule.dport /\ r.protocol = rule.protocol))

\* `iptables -D` removes the first rule that matches.
RemoveFirst(fw, rule) ==
    IF \E i \in 1..Len(fw) : fw[i] = rule
    THEN LET k == CHOOSE i \in 1..Len(fw) : fw[i] = rule /\ \A j \in 1..(i - 1) : fw[j] # rule
         IN SubSeq(fw, 1, k - 1) \o SubSeq(fw, k + 1, Len(fw))
    ELSE fw

\* A loop that ends at the first delete that fails.
RECURSIVE DeleteRulesUntilFailure(_, _, _, _, _)
DeleteRulesUntilFailure(fw, container_ip, triples, i, del_fail) ==
    IF i > Len(triples) \/ i \in del_fail THEN fw
    ELSE LET t == triples[i] IN
         DeleteRulesUntilFailure(RemoveFirst(fw, DnatRule(t.protocol, t.external_port,
                                                          container_ip, t.internal_port)),
                                 container_ip, triples, i + 1, del_fail)

\* The loop of remove_iptables_rules; the deletes whose index is in del_fail exit
\* non-zero, as does the delete of a rule that is not there: both are only logged.
RECURSIVE DeleteRules(_, _, _, _, _)
DeleteRules(fw, container_ip, triples, i, del_fail) ==
    IF i > Len(triples) THEN fw
    ELSE LET t == triples[i] IN
         DeleteRules(IF i \in del_fail THEN fw
                     ELSE RemoveFirst(fw, DnatRule(t.protocol, t.external_port, container_ip,
                                                   t.internal_port)),
                     container_ip, triples, i + 1, del_fail)

\* What remove_iptables_rules does, statement by statement, from triple i on.
RECURSIVE DeleteEvents(_, _, _, _, _)
DeleteEvents(fw, container_ip, triples, i, del_fail) ==
    IF i > Len(triples) THEN <<>>
    ELSE LET t == triples[i]
             rule == DnatRule(t.protocol, t.external_port, container_ip, t.internal_port)
             done == i \notin del_fail /\ rule \in SeqToSet(fw)
         IN  <<IF done THEN "delete" ELSE "delete_failed">> \o
             DeleteEvents(IF done THEN RemoveFirst(fw, rule) ELSE fw,
                          container_ip, triples, i + 1, del_fail)

remove_events(fw, container_ip, triples, del_fail, save_ok) ==
    DeleteEvents(fw, container_ip, triples, 1, del_fail)
        \o <<IF save_ok THEN "save" ELSE "save_failed">>

remove_iptables_rules(fw, saved, container_ip, triples, del_fail, save_ok) ==
    LET left == DeleteRules(fw, container_ip, triples, 1, del_fail) IN
    [iptables |-> left, rules_v4 |-> save_iptables_rules(left, saved, save_ok)]

\* Automatic mode that takes the default internal ports round and round.
AutomaticInternalPortsWrapped(assigned_ports, num_ports) ==
    [i \in 1..num_ports |->
        INTERNAL_PORTS_DEFAULT[((i - 1) % Len(INTERNAL_PORTS_DEFAULT)) + 1]]

\* Internal ports and protocols of automatic mode.
AutomaticInternalPorts(assigned_ports, num_ports) ==
    [i \in 1..num_ports |->
        IF i <= Len(INTERNAL_PORTS_DEFAULT) THEN INTERNAL_PORTS_DEFAULT[i] ELSE assigned_ports[i]]

AutomaticProtocols(num_ports) ==
    [i \in 1..num_ports |->
        IF i <= Len(PROTOCOLS_DEFAULT) THEN PROTOCOLS_DEFAULT[i] ELSE "tcp"]

InsertRows(pm, container_ip, triples, description) ==
    pm \o [i \in 1..Len(triples) |->
              Row(container_ip, triples[i].external_port, triples[i].internal_port,
                  triples[i].protocol, description)]

----------------------------------------------------------------------------
(* add_container *)

\* A call that raises before it has changed anything.
Raise(op, owner, outcome, allocated) ==
    /\ last' = [NoCall EXCEPT !.op = op, !.owner = owner, !.outcome = outcome,
                              !.allocated = allocated]
    /\ snap' = NoSnap
    /\ UNCHANGED <<port_mappings, db_file, reserved_ports, iptables, rules_v4, ip_forward,
                   listening, export_file, backup_dir, faults, adding>>

\* An add that raises before it has changed anything.
RaiseAdd(container_ip, request, outcome, allocated) ==
    /\ last' = [NoCall EXCEPT !.op = "add", !.owner = container_ip, !.outcome = outcome,
                              !.allocated = allocated, !.request = request]
    /\ snap' = NoSnap
    /\ UNCHANGED <<port_mappings, db_file, reserved_ports, iptables, rules_v4, ip_forward,
                   listening, export_file, backup_dir, faults, adding>>

\* add_container without the check for existing mappings.
owner_never_bound(pm, container_ip) == FALSE

\* SELECT COUNT(*) FROM port_mappings WHERE container_ip = ? ... > 0
owner_bound(pm, container_ip) == Len(RowsOf(pm, container_ip)) > 0

\* The rows written whether or not setup_iptables_rules has raised.
add_persist_despite_failure(pm, container_ip, triples, description, temporary, raised) ==
    IF temporary THEN pm ELSE InsertRows(pm, container_ip, triples, description)

\* The table after the lines that follow setup_iptables_rules: an exception raised by
\* setup_iptables_rules leaves add_container before them, a temporary add skips them.
add_persist(pm, container_ip, triples, description, temporary, raised) ==
    IF raised \/ temporary THEN pm ELSE InsertRows(pm, container_ip, triples, description)

\* From "Setup iptables rules" to the return.
ProgramAndStore(container_ip, request, assigned_ports, internal_ports, protocols_list, temporary, description, allocated, fail_at, save_ok) ==
    LET triples == Zip3(assigned_ports, internal_ports, protocols_list) IN
        LET fw == setup_iptables_rules(iptables, ip_forward, rules_v4, container_ip, triples,
                                       ~temporary, fail_at, save_ok)
            pm == add_persist(port_mappings, container_ip, triples, description, temporary,
                              fw.raised)
            stored == ~fw.raised /\ ~temporary
        IN  /\ iptables' = fw.iptables
            /\ ip_forward' = fw.ip_forward
            /\ rules_v4' = fw.rules_v4
            /\ port_mappings' = pm
            /\ db_file' = IF stored THEN pm ELSE db_file
            /\ last' = [NoCall EXCEPT !.op = "add", !.owner = container_ip,
                                      !.outcome = IF fw.raised THEN "CommandFailed" ELSE "ok",
                                      !.mappings = IF fw.raised THEN <<>> ELSE triples,
                                      !.allocated = allocated,
                                      !.assigned = IF allocated THEN assigned_ports ELSE <<>>,
                                      !.temporary = temporary,
                                      !.request = request,
                                      !.events =
                                          setup_events(iptables, container_ip, triples,
                                                       ~temporary, fail_at, save_ok)
                                          \o (IF stored
                                              THEN [i \in 1..Len(triples) |-> "row"]
                                                       \o <<"commit">>
                                              ELSE <<>>)]
            /\ snap' = IF stored
                       THEN [stage |-> "added", owner |-> container_ip,
                             port_mappings |-> port_mappings,
                             reserved_ports |-> reserved_ports, iptables |-> iptables,
                             preexisting |->
                                 \E i \in 1..Len(triples) :
                                     iptables_rule_exists(iptables, triples[i].protocol,
                                                          triples[i].external_port, container_ip,
                                                          triples[i].internal_port),
                             delete_failed |-> FALSE]
                       ELSE NoSnap
            /\ faults' = faults + (IF fw.raised \/ (stored /\ ~save_ok) THEN 1 ELSE 0)
            /\ UNCHANGED <<reserved_ports, listening, export_file, backup_dir, adding>>

\* fail_at and save_ok are what the commands do in this call, as in setup_iptables_rules.
add_container(container_ip, mode, num_ports, internal_ports, external_ports, protocols, temporary, description, fail_at, save_ok) ==
    LET request == Request(mode, num_ports, internal_ports, external_ports, protocols) IN
    IF ~validate_ip(container_ip)
    THEN RaiseAdd(container_ip, request, "InvalidIP", FALSE)
    ELSE IF owner_bound(port_mappings, container_ip)
    THEN RaiseAdd(container_ip, request, "AlreadyBound", FALSE)
    ELSE LET allocated == external_ports = <<>>
             assigned_ports == IF allocated
                               THEN assign_ports(port_mappings, reserved_ports, listening,
                                                 num_ports)
                               ELSE external_ports
             n == IF allocated THEN num_ports ELSE Len(external_ports)
         IN  IF mode = "automatic"
             THEN ProgramAndStore(container_ip, request, assigned_ports,
                                  AutomaticInternalPorts(assigned_ports, n),
                                  AutomaticProtocols(n), temporary, description, allocated,
                                  fail_at, save_ok)
             ELSE IF mode = "manual"
             THEN IF internal_ports = <<>>
                  THEN RaiseAdd(container_ip, request, "InternalPortsRequired", allocated)
                  ELSE IF Len(internal_ports) # n
                  THEN RaiseAdd(container_ip, request, "CountMismatch", allocated)
                  ELSE ProgramAndStore(container_ip, request, assigned_ports, internal_ports,
                                       IF protocols # <<>> THEN protocols
                                       ELSE [i \in 1..n |-> "tcp"],
                                       temporary, description, allocated, fail_at, save_ok)
             ELSE RaiseAdd(container_ip, request, "InvalidMode", allocated)

\* Outcomes the commands of a call may have: a failure only while fewer than MaxFaults
\* calls have seen one.
MayFail(outcomes, good) == IF faults < MaxFaults THEN outcomes ELSE {good}

\* The calls of add_container with requests, descriptions and command outcomes drawn
\* from the given sets; temp_requests are the requests also made with temporary=True.
\* Calls that would take the live rules beyond MaxRules or the table beyond MaxRows are
\* left out.
\* A call that fails one of the first two checks does the same whatever its other
\* arguments are, and a temporary add stores no description and saves no rules: one
\* value stands for all of them there.
AddWith(requests, temp_requests, descriptions, fail_points, save_outcomes) ==
    \E container_ip \in Owners :
        LET checked == validate_ip(container_ip) /\ ~owner_bound(port_mappings, container_ip)
        IN  \E req \in (IF checked THEN requests ELSE {Request("automatic", 1, <<>>, <<>>, <<>>)}) :
                \E temporary \in (IF checked /\ req \in temp_requests THEN BOOLEAN ELSE {FALSE}) :
                    \E description \in (IF checked /\ ~temporary THEN descriptions ELSE {None}),
                       fail_at \in (IF checked THEN MayFail(fail_points, 0) ELSE {0}),
                       save_ok \in (IF checked /\ ~temporary THEN MayFail(save_outcomes, TRUE)
                                    ELSE {TRUE}) :
                        /\ add_container(container_ip, req.mode, req.num_ports,
                                         req.internal_ports, req.external_ports,
                                         req.protocols, temporary, description, fail_at,
                                         save_ok)
                        /\ Len(iptables') <= MaxRules
                        /\ Len(port_mappings') <= MaxRows

----------------------------------------------------------------------------
(* remove_container *)

\* remove_container without the test of the rows it has read.
no_mappings_ignored(mappings) == FALSE

\* if not mappings
no_mappings(mappings) == mappings = <<>>

\* del_fail: the deletes that fail in this call; save_ok: whether the save succeeds.
remove_container(container_ip, del_fail, save_ok) ==
    LET mappings == RowsOf(port_mappings, container_ip)
        triples == TriplesOf(mappings)
    IN  IF no_mappings(mappings)
        THEN Raise("remove", container_ip, "NotFound", FALSE)
        ELSE    LET fw == remove_iptables_rules(iptables, rules_v4, container_ip, triples,
                                                del_fail, save_ok)
                    pm == RowsNotOf(port_mappings, container_ip)
                IN  /\ iptables' = fw.iptables
                    /\ rules_v4' = fw.rules_v4
                    /\ port_mappings' = pm
                    /\ db_file' = pm
                    /\ last' = [NoCall EXCEPT !.op = "remove", !.owner = container_ip,
                                              !.ret = Len(mappings),
                                              !.mappings = triples,
                                              !.events =
                                                  remove_events(iptables, container_ip,
                                                                triples, del_fail, save_ok)
                                                  \o <<"rows_deleted", "commit">>]
                    /\ snap' = IF snap.stage = "added" /\ snap.owner = container_ip
                               THEN [snap EXCEPT !.stage = "removed",
                                                 !.delete_failed =
                                                     \E i \in del_fail \cap (1..Len(triples)) :
                                                         iptables_rule_exists(
                                                             iptables, triples[i].protocol,
                                                             triples[i].external_port,
                                                             container_ip,
                                                             triples[i].internal_port)]
                               ELSE NoSnap
                    /\ faults' = faults + (IF del_fail # {} \/ ~save_ok THEN 1 ELSE 0)
                    /\ UNCHANGED <<reserved_ports, ip_forward, listening, export_file, backup_dir, adding>>

RemoveWith(fail_sets, save_outcomes) ==
    \E container_ip \in Owners :
        LET bound == owner_bound(port_mappings, container_ip)
        IN  \E del_fail \in (IF bound THEN MayFail(fail_sets, {}) ELSE {{}}),
               save_ok \in (IF bound THEN MayFail(save_outcomes, TRUE) ELSE {TRUE}) :
                remove_container(container_ip, del_fail, save_ok)

----------------------------------------------------------------------------
(* reserve_ports, unreserve_ports *)

\* INSERT OR REPLACE in place of INSERT OR IGNORE.
reserve_replace(rp, port, description) ==
    {r \in rp : r.port # port} \cup {[port |-> port, description |-> description]}

\* INSERT OR IGNORE INTO reserved_ports (port, description)
reserve_insert(rp, port, description) ==
    IF \E r \in rp : r.port = port THEN rp
    ELSE rp \cup {[port |-> port, description |-> description]}

RECURSIVE ReserveAll(_, _, _, _)
ReserveAll(rp, ports, i, description) ==
    IF i > Len(ports) THEN rp
    ELSE ReserveAll(reserve_insert(rp, ports[i], description), ports, i + 1, description)

reserve_ports(ports, description) ==
    /\ reserved_ports' = ReserveAll(reserved_ports, ports, 1, description)
    /\ db_file' = port_mappings
    /\ last' = [NoCall EXCEPT !.op = "reserve", !.ports = ports, !.description = description]
    /\ snap' = NoSnap
    /\ UNCHANGED <<port_mappings, iptables, rules_v4, ip_forward, listening, export_file, backup_dir, faults, adding>>

\* DELETE FROM reserved_ports WHERE port = ?
unreserve_delete(rp, port) == {r \in rp : r.port # port}

RECURSIVE UnreserveAll(_, _, _)
UnreserveAll(rp, ports, i) ==
    IF i > Len(ports) THEN rp
    ELSE UnreserveAll(unreserve_delete(rp, ports[i]), ports, i + 1)

unreserve_ports(ports) ==
    /\ reserved_ports' = UnreserveAll(reserved_ports, ports, 1)
    /\ db_file' = port_mappings
    /\ last' = [NoCall EXCEPT !.op = "unreserve", !.ports = ports]
    /\ snap' = NoSnap
    /\ UNCHANGED <<port_mappings, iptables, rules_v4, ip_forward, listening, export_file, backup_dir, faults, adding>>

Reserve == \E ports \in ReserveMenu, description \in ReserveDescriptions :
               reserve_ports(ports, description)

Unreserve == \E ports \in UnreserveMenu : unreserve_ports(ports)

----------------------------------------------------------------------------
(* list_mappings, export_mappings, import_mappings *)

\* ORDER BY container_ip, external_port
OrderedBefore(a, b) ==
    \/ TextLess(IpText(a.container_ip), IpText(b.container_ip))
    \/ a.container_ip = b.container_ip /\ a.external_port < b.external_port

\* The orders in which SELECT ... ORDER BY container_ip, external_port may return the
\* rows: SQL leaves the order of rows with equal keys open.
list_mappings(pm) ==
    LET n == Len(pm)
        perms == {f \in [1..n -> 1..n] : \A i, j \in 1..n : i # j => f[i] # f[j]}
    IN  {s \in {[i \in 1..n |-> pm[f[i]]] : f \in perms} :
            \A i, j \in 1..n : i < j => ~OrderedBefore(s[j], s[i])}

\* The record export writes for a row: the keys of the JSON object.
export_entry(m) ==
    [container_ip |-> m.container_ip, external_port |-> m.external_port,
     internal_port |-> m.internal_port, protocol |-> m.protocol,
     description |-> m.description]

export_mappings ==
    /\ \E mappings \in list_mappings(port_mappings) :
           export_file' = [i \in 1..Len(mappings) |-> export_entry(mappings[i])]
    /\ last' = [NoCall EXCEPT !.op = "export"]
    /\ snap' = NoSnap
    /\ UNCHANGED <<port_mappings, db_file, reserved_ports, iptables, rules_v4, ip_forward,
                   listening, faults, backup_dir, adding>>

\* SELECT COUNT(*) FROM port_mappings WHERE container_ip = ? AND external_port = ? ... == 0
import_missing(pm, entry) ==
    ~\E i \in 1..Len(pm) : /\ pm[i].container_ip = entry.container_ip
                           /\ pm[i].external_port = entry.external_port

\* The loop of import_mappings from entry i on.  st carries the connection's table, the
\* firewall, the saved rules, the counter and whether a command has raised; the
\* fail_entry-th entry's setup_iptables_rules fails at fail_at.
RECURSIVE ImportEntries(_, _, _, _, _, _)
ImportEntries(st, data, i, fail_entry, fail_at, save_ok) ==
    IF i > Len(data) THEN st
    ELSE LET e == data[i] IN
         IF ~import_missing(st.port_mappings, e)
         THEN ImportEntries(st, data, i + 1, fail_entry, fail_at, save_ok)
         ELSE LET fw == setup_iptables_rules(
                            st.iptables, st.ip_forward, st.rules_v4, e.container_ip,
                            <<[external_port |-> e.external_port,
                               internal_port |-> e.internal_port, protocol |-> e.protocol]>>,
                            TRUE, IF i = fail_entry THEN fail_at ELSE 0, save_ok)
              IN  IF fw.raised
                  THEN [st EXCEPT !.iptables = fw.iptables, !.raised = TRUE]
                  ELSE ImportEntries(
                           [port_mappings |->
                                Append(st.port_mappings,
                                       Row(e.container_ip, e.external_port, e.internal_port,
                                           e.protocol, e.description)),
                            iptables |-> fw.iptables, ip_forward |-> fw.ip_forward,
                            rules_v4 |-> fw.rules_v4, imported |-> st.imported + 1,
                            raised |-> FALSE],
                           data, i + 1, fail_entry, fail_at, save_ok)

import_mappings(data, fail_entry, fail_at, save_ok) ==
        LET st == ImportEntries([port_mappings |-> port_mappings, iptables |-> iptables,
                                 ip_forward |-> ip_forward, rules_v4 |-> rules_v4,
                                 imported |-> 0, raised |-> FALSE],
                                data, 1, fail_entry, fail_at, save_ok)
        IN  /\ Len(st.iptables) <= MaxRules
            /\ Len(st.port_mappings) <= MaxRows
            /\ port_mappings' = st.port_mappings
            /\ db_file' = IF st.raised THEN db_file ELSE st.port_mappings
            /\ iptables' = st.iptables
            /\ ip_forward' = st.ip_forward
            /\ rules_v4' = st.rules_v4
            /\ last' = [NoCall EXCEPT !.op = "import",
                                      !.outcome = IF st.raised THEN "CommandFailed" ELSE "ok",
                                      !.ret = IF st.raised THEN 0 ELSE st.imported]
            /\ snap' = NoSnap
            /\ faults' = faults + (IF st.raised \/ (st.imported > 0 /\ ~save_ok) THEN 1 ELSE 0)
            /\ UNCHANGED <<reserved_ports, listening, export_file, backup_dir, adding>>

Export == export_mappings

\* Import of the file the last export wrote.
ImportExported ==
    \E fail_entry \in MayFail(0..Len(export_file), 0), fail_at \in 1..2 :
        import_mappings(export_file, fail_entry, fail_at, TRUE)

----------------------------------------------------------------------------
(* rebuild_database *)

\* '-A PREROUTING' in line and '-j DNAT' in line and f'-i {network_interface}' in line:
\* the last is a substring test, met by every interface name that starts with the
\* managed one.
rebuild_line_matches(line) ==
    /\ line.chain = "PREROUTING"
    /\ line.jump = "DNAT"
    /\ IsPrefix(network_interface, line.iface)

\* rebuild_database without the check for a row already in the table.
rebuild_always_missing(pm, line) == TRUE

\* SELECT COUNT(*) ... WHERE container_ip = ? AND external_port = ? AND protocol = ? ... == 0
rebuild_missing(pm, line) ==
    ~\E i \in 1..Len(pm) : /\ pm[i].container_ip = line.to_ip
                           /\ pm[i].external_port = line.dport
                           /\ pm[i].protocol = line.protocol

\* The loop over the lines of iptables-save; the INSERT names no description.
RECURSIVE RebuildLines(_, _, _)
RebuildLines(st, lines, i) ==
    IF i > Len(lines) THEN st
    ELSE LET line == lines[i] IN
         IF rebuild_line_matches(line) /\ rebuild_missing(st.port_mappings, line)
         THEN RebuildLines([port_mappings |->
                                Append(st.port_mappings,
                                       Row(line.to_ip, line.dport, line.to_port,
                                           line.protocol, None)),
                            imported |-> st.imported + 1],
                           lines, i + 1)
         ELSE RebuildLines(st, lines, i + 1)

rebuild_database ==
    LET st == RebuildLines([port_mappings |-> port_mappings, imported |-> 0], iptables, 1)
    IN  /\ Len(st.port_mappings) <= MaxRows
        /\ port_mappings' = st.port_mappings
        /\ db_file' = st.port_mappings
        /\ last' = [NoCall EXCEPT !.op = "rebuild", !.ret = st.imported,
                                  !.again = (last.op = "rebuild")]
        /\ snap' = NoSnap
        /\ UNCHANGED <<reserved_ports, iptables, rules_v4, ip_forward, listening, export_file, backup_dir, faults, adding>>

Rebuild == rebuild_database

----------------------------------------------------------------------------
(* backup_configuration, restore_configuration *)

\* datetime.now().strftime('%Y%m%d_%H%M%S'): the clock does not run backwards, and two
\* backups within one second get the same timestamp.
Timestamps == 1..MaxBackups

NextTimestamps == {t \in Timestamps : \A u \in DOMAIN backup_dir : t >= u}

\* shutil.copy(backup_path/port_mappings.db, db_file)
restore_database(pm, bundle_pm) == bundle_pm

\* subprocess.run(['iptables-restore'], stdin=f): no check=True, the exit status is
\* dropped; a failing iptables-restore leaves the live rules as they are.
restore_rules(fw, bundle_rules, restore_ok) == IF restore_ok THEN bundle_rules ELSE fw

\* makedirs(exist_ok=True), copy of the database file, dump of iptables-save: a
\* directory of the same timestamp is written over.
backup_configuration(timestamp) ==
    /\ backup_dir' = [t \in DOMAIN backup_dir \cup {timestamp} |->
                          IF t = timestamp
                          THEN [port_mappings |-> db_file, reserved_ports |-> reserved_ports,
                                rules |-> iptables]
                          ELSE backup_dir[t]]
    /\ last' = [NoCall EXCEPT !.op = "backup", !.timestamp = timestamp]
    /\ snap' = NoSnap
    /\ UNCHANGED <<port_mappings, db_file, reserved_ports, iptables, rules_v4, ip_forward,
                   listening, export_file, faults, adding>>

restore_configuration(timestamp, restore_ok) ==
    IF timestamp \notin DOMAIN backup_dir
    THEN /\ last' = [NoCall EXCEPT !.op = "restore", !.timestamp = timestamp,
                                   !.outcome = "NotFound"]
         /\ snap' = NoSnap
         /\ UNCHANGED <<port_mappings, db_file, reserved_ports, iptables, rules_v4,
                        ip_forward, listening, export_file, backup_dir, faults, adding>>
    ELSE LET bundle == backup_dir[timestamp] IN
         /\ db_file' = restore_database(db_file, bundle.port_mappings)
         /\ port_mappings' = db_file'
         /\ reserved_ports' = bundle.reserved_ports
         /\ iptables' = restore_rules(iptables, bundle.rules, restore_ok)
         /\ faults' = faults + (IF restore_ok THEN 0 ELSE 1)
         /\ last' = [NoCall EXCEPT !.op = "restore", !.timestamp = timestamp,
                                   !.events = <<"database_copied",
                                                IF restore_ok THEN "rules_restored"
                                                ELSE "restore_failed">>]
         /\ snap' = NoSnap
         /\ UNCHANGED <<rules_v4, ip_forward, listening, export_file, backup_dir, adding>>

Backup == \E timestamp \in NextTimestamps : backup_configuration(timestamp)

Restore ==
    \E timestamp \in Timestamps, restore_ok \in MayFail(BOOLEAN, TRUE) :
        restore_configuration(timestamp, restore_ok)

----------------------------------------------------------------------------
(* add_container run by several processes at once.  Each process has its own manager *)
(* and its own connection to the database file (the CLI, and the web application     *)
(* next to it); they share the file, the firewall and the host's sockets.  A call    *)
(* goes through four steps: the reads up to assign_ports, setup_iptables_rules, the  *)
(* INSERTs, the commit.                                                              *)

Processes == 1..MaxProcesses

NotAdding ==
    [pc |-> "idle", container_ip |-> <<>>, num_ports |-> 0, next_port |-> 0,
     assigned_ports |-> <<>>, rows |-> <<>>]

AddingTriples(call) ==
    Zip3(call.assigned_ports, AutomaticInternalPorts(call.assigned_ports, call.num_ports),
         AutomaticProtocols(call.num_ports))

\* validate_ip, the owner check and assign_ports: SELECTs that see the committed rows.
add_allocate(p, container_ip, num_ports) ==
    /\ adding[p].pc = "idle"
    /\ \A q \in Processes \ {p} : adding[q].container_ip # container_ip
    /\ validate_ip(container_ip)
    /\ IF owner_bound(db_file, container_ip)
       THEN /\ adding' = adding
            /\ last' = [NoCall EXCEPT !.op = "add", !.owner = container_ip,
                                      !.outcome = "AlreadyBound"]
       ELSE /\ adding' = [adding EXCEPT ![p] =
                              [NotAdding EXCEPT
                                   !.pc = "allocated", !.container_ip = container_ip,
                                   !.num_ports = num_ports,
                                   !.assigned_ports = assign_ports(db_file, reserved_ports,
                                                                   listening, num_ports)]]
            /\ last' = [NoCall EXCEPT !.op = "add_allocate", !.owner = container_ip,
                                      !.allocated = TRUE,
                                      !.assigned = adding'[p].assigned_ports]
    /\ snap' = NoSnap
    /\ UNCHANGED <<port_mappings, db_file, reserved_ports, iptables, rules_v4, ip_forward,
                   listening, export_file, backup_dir, faults>>

\* setup_iptables_rules of the call.
add_program(p) ==
    /\ adding[p].pc = "allocated"
    /\ LET fw == setup_iptables_rules(iptables, ip_forward, rules_v4,
                                      adding[p].container_ip, AddingTriples(adding[p]),
                                      TRUE, 0, TRUE)
       IN  /\ iptables' = fw.iptables
           /\ ip_forward' = fw.ip_forward
           /\ rules_v4' = fw.rules_v4
    /\ adding' = [adding EXCEPT ![p].pc = "programmed"]
    /\ last' = [NoCall EXCEPT !.op = "add_program", !.owner = adding[p].container_ip]
    /\ snap' = NoSnap
    /\ UNCHANGED <<port_mappings, db_file, reserved_ports, listening, export_file,
                   backup_dir, faults>>

\* The INSERTs of the call: the first one takes the write lock of the file, which a
\* process waits for while another one holds rows it has not committed.
add_insert(p) ==
    /\ adding[p].pc = "programmed"
    /\ \A q \in Processes \ {p} : adding[q].pc # "inserted"
    /\ adding' = [adding EXCEPT ![p].pc = "inserted",
                                ![p].rows = InsertRows(<<>>, adding[p].container_ip,
                                                       AddingTriples(adding[p]), None)]
    /\ last' = [NoCall EXCEPT !.op = "add_insert", !.owner = adding[p].container_ip]
    /\ snap' = NoSnap
    /\ UNCHANGED <<port_mappings, db_file, reserved_ports, iptables, rules_v4, ip_forward,
                   listening, export_file, backup_dir, faults>>

\* self.conn.commit() and the return.
add_commit(p) ==
    /\ adding[p].pc = "inserted"
    /\ db_file' = db_file \o adding[p].rows
    /\ port_mappings' = db_file'
    /\ adding' = [adding EXCEPT ![p] = NotAdding]
    /\ last' = [NoCall EXCEPT !.op = "add", !.owner = adding[p].container_ip,
                              !.mappings = AddingTriples(adding[p]), !.allocated = TRUE,
                              !.assigned = adding[p].assigned_ports]
    /\ snap' = NoSnap
    /\ UNCHANGED <<reserved_ports, iptables, rules_v4, ip_forward, listening, export_file,
                   backup_dir, faults>>

AddAllocate ==
    \E p \in Processes, container_ip \in {OwnerA, OwnerB}, num_ports \in 1..MaxPorts :
        add_allocate(p, container_ip, num_ports)

AddProgram == \E p \in Processes : add_program(p)

AddInsert == \E p \in Processes : add_insert(p)

AddCommit == \E p \in Processes : add_commit(p)

----------------------------------------------------------------------------
(* assign_ports followed pass by pass of its while loop.  The call runs in process 1 *)
(* with nothing else running, so the two lists it reads at its start are the tables. *)

\* A loop that goes on to the next port instead of the next block.
next_port_after(next_port, num_ports) == next_port + 1

\* next_port += num_ports
next_block(next_port, num_ports) == next_port + num_ports

\* The two SELECTs and next_port = port_start.
search_begin(p, num_ports) ==
    /\ adding[p].pc = "idle"
    /\ adding' = [adding EXCEPT ![p] = [NotAdding EXCEPT !.pc = "searching",
                                                         !.num_ports = num_ports,
                                                         !.next_port = port_start]]
    /\ last' = [NoCall EXCEPT !.op = "assign_ports_loop"]
    /\ snap' = NoSnap
    /\ UNCHANGED <<port_mappings, db_file, reserved_ports, iptables, rules_v4, ip_forward,
                   listening, export_file, backup_dir, faults>>

\* A pass that finds a conflict in the block.
search_step(p) ==
    /\ adding[p].pc = "searching"
    /\ BlockConflict({port_mappings[i].external_port : i \in 1..Len(port_mappings)},
                     {r.port : r \in reserved_ports}, listening, adding[p].next_port,
                     adding[p].num_ports)
    /\ adding' = [adding EXCEPT ![p].next_port =
                                    next_block(adding[p].next_port, adding[p].num_ports)]
    /\ last' = [NoCall EXCEPT !.op = "assign_ports_loop"]
    /\ snap' = NoSnap
    /\ UNCHANGED <<port_mappings, db_file, reserved_ports, iptables, rules_v4, ip_forward,
                   listening, export_file, backup_dir, faults>>

\* The pass that finds no conflict, the break and the return.
search_return(p) ==
    /\ adding[p].pc = "searching"
    /\ ~BlockConflict({port_mappings[i].external_port : i \in 1..Len(port_mappings)},
                      {r.port : r \in reserved_ports}, listening, adding[p].next_port,
                      adding[p].num_ports)
    /\ adding' = [adding EXCEPT ![p] = NotAdding]
    /\ last' = [NoCall EXCEPT !.op = "assign_ports", !.allocated = TRUE,
                              !.assigned = [i \in 1..adding[p].num_ports |->
                                               adding[p].next_port + (i - 1)],
                              !.request = Request("none", adding[p].num_ports, <<>>, <<>>,
                                                  <<>>)]
    /\ snap' = NoSnap
    /\ UNCHANGED <<port_mappings, db_file, reserved_ports, iptables, rules_v4, ip_forward,
                   listening, export_file, backup_dir, faults>>

SearchBegin == \E num_ports \in 1..MaxSlots : search_begin(1, num_ports)

SearchStep == search_step(1)

SearchReturn == search_return(1)

----------------------------------------------------------------------------
(* What happens outside the manager. *)

OtherInterface == <<"e", "t", "h", "0">>

\* Rules an administrator adds by hand: the first rule an automatic add programs for
\* OwnerA (appended again, it is a duplicate line), a rule for the same owner, port and
\* protocol to another internal port, and a rule on another interface.
ExternalRules ==
    {DnatRule("tcp", port_start, OwnerA, INTERNAL_PORTS_DEFAULT[1]),
     DnatRule("tcp", port_start, OwnerA, INTERNAL_PORTS_DEFAULT[4]),
     [DnatRule("tcp", port_start + 1, OwnerB, 80) EXCEPT !.iface = OtherInterface]}

ExternalRuleAppend ==
    /\ Len(iptables) < MaxRules
    /\ \E rule \in ExternalRules : iptables' = Append(iptables, rule)
    /\ last' = [NoCall EXCEPT !.op = "external"]
    /\ snap' = NoSnap
    /\ UNCHANGED <<port_mappings, db_file, reserved_ports, rules_v4, ip_forward, listening,
                   export_file, backup_dir, faults, adding>>

\* A process on the host starts or stops listening on a port.
SocketChange ==
    /\ \E port \in SocketPorts :
           listening' = IF port \in listening THEN listening \ {port}
                        ELSE listening \cup {port}
    /\ last' = [NoCall EXCEPT !.op = "external"]
    /\ snap' = NoSnap
    /\ UNCHANGED <<port_mappings, db_file, reserved_ports, iptables, rules_v4, ip_forward,
                   export_file, backup_dir, faults, adding>>

\* The process ends (the CLI exits after every command) and a new manager opens the
\* database: rows inserted and not committed are gone.
Restart ==
    /\ port_mappings # db_file
    /\ port_mappings' = db_file
    /\ last' = [NoCall EXCEPT !.op = "external"]
    /\ snap' = NoSnap
    /\ UNCHANGED <<db_file, reserved_ports, iptables, rules_v4, ip_forward, listening,
                   export_file, backup_dir, faults, adding>>

----------------------------------------------------------------------------

Init ==
    /\ port_mappings = <<>>
    /\ db_file = <<>>
    /\ reserved_ports = {}
    /\ iptables = <<>>
    /\ rules_v4 = <<>>
    /\ ip_forward = FALSE
    /\ listening = {}
    /\ export_file = <<>>
    /\ backup_dir = <<>>
    /\ adding = [p \in Processes |-> NotAdding]
    /\ faults = 0
    /\ last = NoCall
    /\ snap = NoSnap

----------------------------------------------------------------------------
(* Specifications.  Each one runs the manager's methods from the empty store; they      *)
(* differ in the methods called, the requests made and the commands allowed to fail.    *)

\* Allocation and reservation: every kind of add request, no failing command.
Add == AddWith(AddRequests, {}, {None}, {0}, {TRUE})

Remove == RemoveWith({{}}, {TRUE})

Next ==
    \/ Add
    \/ Remove
    \/ Reserve
    \/ Unreserve
    \/ SocketChange

Spec == Init /\ [][Next]_vars

\* Failing commands and temporary adds.
AddFaulty ==
    AddWith(AllocatorRequests \cup {TwoProtocolRequest}, TemporaryRequests, {None},
            0..(MaxPorts + 1), BOOLEAN)

RemoveFaulty == RemoveWith(SUBSET (1..MaxRows), BOOLEAN)

NextFaults ==
    \/ AddFaulty
    \/ RemoveFaulty

SpecFaults == Init /\ [][NextFaults]_vars

\* Rebuild from the live rules, with rules added by hand.
AddLive == AddWith(AllocatorRequests, TemporaryRequests, {None}, {0}, {TRUE})

NextLive ==
    \/ AddLive
    \/ Remove
    \/ Rebuild
    \/ ExternalRuleAppend

SpecLive == Init /\ [][NextLive]_vars

\* Export, and import of the exported file: the table is filled, exported, emptied
\* and imported again, so no add follows an export that wrote entries.
AddDescribed ==
    /\ export_file = <<>>
    /\ AddWith(AllocatorRequests \cup {TwoProtocolRequest}, {}, {"web"}, {0}, {TRUE})

NextPortable ==
    \/ AddDescribed
    \/ Remove
    \/ Export
    \/ ImportExported
    \/ Restart

SpecPortable == Init /\ [][NextPortable]_vars

----------------------------------------------------------------------------
(* The allocator and the slots of automatic mode: adds of up to MaxSlots    *)
(* ports over tables, reservations and sockets that put a conflict at the   *)
(* first or a middle port, and assign_ports for BigBlock ports over these   *)
(* and over sockets bound at every port up to 65535.  With every port bound *)
(* the search is followed for BigBlock ports only.                          *)

ReservedStarts ==
    {{}, {[port |-> port_start, description |-> None]},
     {[port |-> port_start + 1, description |-> None]}}

AllBound == port_start..65535

ListeningStarts == {{}, {port_start + 2}, AllBound}

InitAllocate ==
    /\ port_mappings = <<>>
    /\ db_file = <<>>
    /\ reserved_ports \in ReservedStarts
    /\ iptables = <<>>
    /\ rules_v4 = <<>>
    /\ ip_forward = FALSE
    /\ listening \in ListeningStarts
    /\ export_file = <<>>
    /\ backup_dir = <<>>
    /\ adding = [p \in Processes |-> NotAdding]
    /\ faults = 0
    /\ last = NoCall
    /\ snap = NoSnap

AddSlots ==
    /\ listening # AllBound
    /\ \E container_ip \in {OwnerA, OwnerB}, num_ports \in 1..MaxSlots :
           add_container(container_ip, "automatic", num_ports, <<>>, <<>>, <<>>, FALSE,
                         None, 0, TRUE)

\* A call of assign_ports by itself: it reads tables and sockets and writes nothing.
AssignPorts ==
    /\ last' = [NoCall EXCEPT !.op = "assign_ports", !.allocated = TRUE,
                              !.assigned = assign_ports(port_mappings, reserved_ports,
                                                        listening, BigBlock),
                              !.request = Request("none", BigBlock, <<>>, <<>>, <<>>)]
    /\ snap' = NoSnap
    /\ UNCHANGED <<port_mappings, db_file, reserved_ports, iptables, rules_v4, ip_forward,
                   listening, export_file, backup_dir, faults, adding>>

NextAllocate == AddSlots \/ AssignPorts

SpecAllocate == InitAllocate /\ [][NextAllocate]_vars

\* Backup and restore: one-port automatic adds, removes and reservations between a
\* backup and the restores of it; iptables-restore may fail.
AddOnePort == AddWith(TemporaryRequests, {}, {None}, {0}, {TRUE})

ReserveBase == reserve_ports(<<port_start>>, None)

NextBackup ==
    \/ AddOnePort
    \/ Remove
    \/ ReserveBase
    \/ Backup
    \/ Restore

SpecBackup == Init /\ [][NextBackup]_vars

\* Adds of different owners by processes that run at the same time, and reservations.
NextConcurrent ==
    \/ AddAllocate
    \/ AddProgram
    \/ AddInsert
    \/ AddCommit
    \/ ReserveBase

SpecConcurrent == Init /\ [][NextConcurrent]_vars

\* Allocator-based adds only, temporary or not, one after the other, while sockets
\* come and go; nobody else touches the firewall.
NextTemporary == AddLive \/ SocketChange

SpecTemporary == Init /\ [][NextTemporary]_vars

\* The allocator's loop pass by pass, between adds that fill the table.  The process
\* that runs the loop keeps running, so a pass that can be made is made.
BoundRun == port_start..(port_start + MaxRun - 1)

InitSearch ==
    /\ port_mappings = <<>>
    /\ db_file = <<>>
    /\ reserved_ports \in ReservedStarts
    /\ iptables = <<>>
    /\ rules_v4 = <<>>
    /\ ip_forward = FALSE
    /\ listening \in {{}, {port_start + 2}, BoundRun}
    /\ export_file = <<>>
    /\ backup_dir = <<>>
    /\ adding = [p \in Processes |-> NotAdding]
    /\ faults = 0
    /\ last = NoCall
    /\ snap = NoSnap

AddBetweenSearches == adding[1].pc = "idle" /\ AddLive

NextSearch ==
    \/ AddBetweenSearches
    \/ SearchBegin
    \/ SearchStep
    \/ SearchReturn

SpecSearch == InitSearch /\ [][NextSearch]_vars /\ WF_vars(SearchStep) /\ WF_vars(SearchReturn)

----------------------------------------------------------------------------
(* Properties. *)

ExternalPorts(pm) == {pm[i].external_port : i \in 1..Len(pm)}

ReservedPortNumbers(rp) == {r.port : r \in rp}

\* C1: the persisted mapping table holds at most one row per (external_port, protocol).
C1_UniqueExternalPortProtocol ==
    \A i, j \in 1..Len(db_file) :
        i # j => ~(/\ db_file[i].external_port = db_file[j].external_port
                   /\ db_file[i].protocol = db_file[j].protocol)

\* C2: the ports an add gets from the allocator are, in the state the add is called in,
\* not the external port of a row of another owner, not reserved and not bound by a
\* listening socket.
C2_AllocatedPortsAreFree ==
    [][(last'.op = "add" /\ last'.outcome = "ok" /\ last'.allocated) =>
           \A i \in 1..Len(last'.assigned) :
               /\ last'.assigned[i] \notin ExternalPorts(RowsNotOf(port_mappings, last'.owner))
               /\ last'.assigned[i] \notin ReservedPortNumbers(reserved_ports)
               /\ last'.assigned[i] \notin listening]_vars

\* C2 witness: an allocating add has returned a block above the base port while another
\* owner holds rows, a port is reserved and a socket is listening.
C2_Witness ==
    /\ last.op = "add" /\ last.outcome = "ok" /\ last.allocated
    /\ Len(last.assigned) >= 1
    /\ last.assigned[1] > port_start
    /\ RowsNotOf(port_mappings, last.owner) # <<>>
    /\ reserved_ports # {}
    /\ listening # {}

\* C3: no reserved port is the external port of a persisted mapping.
C3_ReservedPortsUnmapped ==
    \A r \in reserved_ports : r.port \notin ExternalPorts(db_file)

\* C9: reserve of a port that is reserved leaves its one reservation as it was, with
\* its description; unreserve of ports that are not reserved leaves the set unchanged.
C9_ReserveUnreserveIdempotent ==
    [][/\ last'.op = "reserve" =>
           /\ last'.outcome = "ok"
           /\ \A i \in 1..Len(last'.ports) :
                  LET p == last'.ports[i] IN
                  /\ Cardinality({r \in reserved_ports' : r.port = p}) = 1
                  /\ p \in ReservedPortNumbers(reserved_ports) =>
                         {r \in reserved_ports' : r.port = p} =
                             {r \in reserved_ports : r.port = p}
       /\ (/\ last'.op = "unreserve"
           /\ \A i \in 1..Len(last'.ports) :
                  last'.ports[i] \notin ReservedPortNumbers(reserved_ports)) =>
              last'.outcome = "ok" /\ reserved_ports' = reserved_ports]_vars

\* C9 witness: a reserve has named a port whose reservation carries another description.
C9_Witness ==
    /\ last.op = "reserve"
    /\ \E r \in reserved_ports :
           r.port \in SeqToSet(last.ports) /\ r.description # last.description

\* C10: an add for an owner that has rows raises the already-bound error, runs no
\* allocator and changes neither table nor reservations nor rules.
C10_AddForBoundOwnerHasNoEffect ==
    [][(/\ last'.op = "add"
        /\ validate_ip(last'.owner)
        /\ \E i \in 1..Len(port_mappings) : port_mappings[i].container_ip = last'.owner) =>
           /\ last'.outcome = "AlreadyBound"
           /\ ~last'.allocated
           /\ port_mappings' = port_mappings
           /\ db_file' = db_file
           /\ reserved_ports' = reserved_ports
           /\ iptables' = iptables
           /\ rules_v4' = rules_v4]_vars

\* C10 witness: an add has been refused for an owner that holds rows.
C10_Witness ==
    /\ last.op = "add" /\ last.outcome = "AlreadyBound"
    /\ RowsOf(port_mappings, last.owner) # <<>>

\* C4: an add in which a rule insertion or the forwarding switch fails leaves the table
\* as it was, in the connection and in the file.
C4_FailedAddLeavesTableUnchanged ==
    [][(last'.op = "add" /\ last'.outcome = "CommandFailed") =>
           port_mappings' = port_mappings /\ db_file' = db_file]_vars

\* C4 witness: an add has failed after it had inserted a rule of its owner, who has no row.
C4_Witness ==
    /\ last.op = "add" /\ last.outcome = "CommandFailed"
    /\ \E i \in 1..Len(iptables) : iptables[i].to_ip = last.owner
    /\ RowsOf(port_mappings, last.owner) = <<>>

RoundTripDone == snap.stage = "removed"

\* C5: after a non-temporary add and the remove of the same owner right after it, none
\* of whose deletes failed, table, reservations and live rules are those from before the
\* add, whatever rules were live then.
C5_RoundTripWithLiveRules ==
    (RoundTripDone /\ ~snap.delete_failed) =>
        /\ port_mappings = snap.port_mappings
        /\ reserved_ports = snap.reserved_ports
        /\ iptables = snap.iptables

TemporaryAddDone(call) == call.op = "add" /\ call.temporary /\ call.outcome = "ok"

RuleOf(call, i) ==
    DnatRule(call.mappings[i].protocol, call.mappings[i].external_port, call.owner,
             call.mappings[i].internal_port)

PersistedAs(pm, call, i) ==
    \E k \in 1..Len(pm) :
        /\ pm[k].container_ip = call.owner
        /\ pm[k].external_port = call.mappings[i].external_port
        /\ pm[k].internal_port = call.mappings[i].internal_port
        /\ pm[k].protocol = call.mappings[i].protocol

\* C6: a temporary add programs its rules and writes no row, and the call that follows
\* it does not bring a rule of it into the saved rules, unless that call has written a
\* row with the fields of the rule.
C6_TemporaryRuleNeverSaved ==
    [][/\ TemporaryAddDone(last') =>
           /\ port_mappings' = port_mappings
           /\ db_file' = db_file
           /\ \A i \in 1..Len(last'.mappings) : RuleOf(last', i) \in SeqToSet(iptables')
       /\ TemporaryAddDone(last) =>
           \A i \in 1..Len(last.mappings) :
               RuleOf(last, i) \notin SeqToSet(rules_v4) =>
                   \/ RuleOf(last, i) \notin SeqToSet(rules_v4')
                   \/ PersistedAs(port_mappings', last, i)]_vars

\* C7: an import, into an empty table with no live rule, of the file an export wrote
\* ends with the exported records in the table.  (Stated for files in which no two
\* entries share external port and protocol, the files a table that meets C1 exports.)
C7_ExportImportRoundTrip ==
    [][(/\ last'.op = "import" /\ last'.outcome = "ok"
        /\ port_mappings = <<>> /\ iptables = <<>>
        /\ \A i, j \in 1..Len(export_file) :
               i # j => ~(/\ export_file[i].external_port = export_file[j].external_port
                          /\ export_file[i].protocol = export_file[j].protocol)) =>
           {export_entry(port_mappings'[i]) : i \in 1..Len(port_mappings')} =
               SeqToSet(export_file)]_vars

\* C8: a rebuild that follows a rebuild directly inserts no row and returns 0.
C8_RebuildTwiceIdempotent ==
    [][(last'.op = "rebuild" /\ last'.again) =>
           /\ last'.ret = 0
           /\ port_mappings' = port_mappings
           /\ db_file' = db_file
           /\ iptables' = iptables]_vars

\* C8 witness: a second rebuild has run over live rules with a duplicate line and a
\* table that the first one filled.
C8_Witness ==
    /\ last.op = "rebuild" /\ last.again
    /\ \E i, j \in 1..Len(iptables) : i # j /\ iptables[i] = iptables[j]
    /\ port_mappings # <<>>

\* C11: a remove for an owner who has no row raises the not-found error, issues no
\* delete and no save, and leaves table, file, live rules, saved rules and reservations
\* as they were.
C11_RemoveUnboundHasNoEffect ==
    [][(last'.op = "remove" /\ RowsOf(port_mappings, last'.owner) = <<>>) =>
           /\ last'.outcome = "NotFound"
           /\ last'.events = <<>>
           /\ port_mappings' = port_mappings
           /\ db_file' = db_file
           /\ iptables' = iptables
           /\ rules_v4' = rules_v4
           /\ reserved_ports' = reserved_ports]_vars

\* C11 witness: the remove was refused while another owner had rows and the live rules
\* differed from the saved ones, so that a save would have shown.
C11_Witness ==
    /\ last.op = "remove" /\ last.outcome = "NotFound"
    /\ port_mappings # <<>>
    /\ iptables # rules_v4

\* The add has come past the checks of address and owner.
AddAdmitted == last'.op = "add" /\ validate_ip(last'.owner) /\ RowsOf(port_mappings, last'.owner) = <<>>

\* C12: a manual add whose internal ports are not as many as num_ports raises the
\* count-mismatch error and leaves live rules, table and file as they were, with or
\* without external ports.
C12_InternalPortCountMismatch ==
    [][(/\ AddAdmitted
        /\ last'.request.mode = "manual"
        /\ last'.request.internal_ports # <<>>
        /\ Len(last'.request.internal_ports) # last'.request.num_ports) =>
           /\ last'.outcome = "CountMismatch"
           /\ iptables' = iptables
           /\ port_mappings' = port_mappings
           /\ db_file' = db_file]_vars

\* C13: an add that asks the allocator for no port (num_ports <= 0, no external
\* ports) does not succeed and leaves table, file, live rules, saved rules and the
\* forwarding switch as they were.
C13_NoPortsRequestedIsRefused ==
    [][(/\ AddAdmitted
        /\ last'.request.external_ports = <<>>
        /\ last'.request.num_ports <= 0) =>
           /\ last'.outcome # "ok"
           /\ port_mappings' = port_mappings
           /\ db_file' = db_file
           /\ iptables' = iptables
           /\ rules_v4' = rules_v4
           /\ ip_forward' = ip_forward]_vars

\* An automatic add for N >= 1 ports of the allocator has succeeded in this step.
AutomaticAddDone ==
    /\ last'.op = "add" /\ last'.outcome = "ok"
    /\ last'.request.mode = "automatic"
    /\ last'.request.external_ports = <<>>
    /\ last'.request.num_ports >= 1

Triple(external_port, internal_port, protocol) ==
    [external_port |-> external_port, internal_port |-> internal_port, protocol |-> protocol]

\* C14: a successful automatic add for N >= 1 ports returns N triples in the order of
\* the allocated ports, all tcp, with internal ports 22, 80, 443, 8080 in the first four
\* slots and the external port itself in the later ones; for N = 6 on an empty system
\* these are 50000->22, 50001->80, 50002->443, 50003->8080, 50004, 50005.
C14_AutomaticSlots ==
    [][AutomaticAddDone =>
           LET N == last'.request.num_ports
               m == last'.mappings
           IN  /\ Len(m) = N
               /\ \A i \in 1..N :
                      /\ m[i].external_port = last'.assigned[i]
                      /\ m[i].protocol = "tcp"
                      /\ m[i].internal_port =
                             CASE i = 1 -> 22 [] i = 2 -> 80 [] i = 3 -> 443 [] i = 4 -> 8080
                               [] OTHER -> m[i].external_port
               /\ (N = 6 /\ port_mappings = <<>> /\ reserved_ports = {} /\ listening = {}) =>
                      m = <<Triple(50000, 22, "tcp"), Triple(50001, 80, "tcp"),
                            Triple(50002, 443, "tcp"), Triple(50003, 8080, "tcp"),
                            Triple(50004, 50004, "tcp"), Triple(50005, 50005, "tcp")>>]_vars

\* C14 witness: an automatic add has returned six triples from a block that does not
\* start at the base port.
C14_Witness ==
    /\ last.op = "add" /\ last.outcome = "ok" /\ last.request.mode = "automatic"
    /\ Len(last.mappings) = 6
    /\ last.mappings[1].external_port > port_start

\* C15: the allocator returns, for N >= 1, N ports each one more than the one before.
C15_AllocatedBlockContiguous ==
    [][(/\ last'.op \in {"add", "assign_ports"} /\ last'.outcome = "ok"
        /\ last'.allocated
        /\ last'.request.num_ports >= 1) =>
           /\ Len(last'.assigned) = last'.request.num_ports
           /\ \A i \in 1..(Len(last'.assigned) - 1) :
                  last'.assigned[i + 1] = last'.assigned[i] + 1]_vars

\* C15 witness: the allocator has returned two ports or more, not from the base port,
\* with rows in the table, a reserved port and a bound socket.
C15_Witness ==
    /\ last.op = "add" /\ last.outcome = "ok" /\ last.allocated
    /\ Len(last.assigned) >= 2
    /\ last.assigned[1] > port_start
    /\ Len(port_mappings) > Len(last.assigned)
    /\ reserved_ports # {} /\ listening # {}

\* C16: the external and internal port of every committed row, and every port the
\* allocator returns, is in 1..65535.
C16_PortsInRange ==
    /\ \A i \in 1..Len(db_file) :
           /\ db_file[i].external_port \in 1..65535
           /\ db_file[i].internal_port \in 1..65535
    /\ (last.op \in {"add", "assign_ports"} /\ last.allocated) =>
           \A i \in 1..Len(last.assigned) : last.assigned[i] \in 1..65535

\* C17: a manual add whose protocols are not as many as num_ports raises the
\* count-mismatch error and leaves live rules, table and file as they were.
C17_ProtocolCountMismatch ==
    [][(/\ AddAdmitted
        /\ last'.request.mode = "manual"
        /\ last'.request.protocols # <<>>
        /\ Len(last'.request.protocols) # last'.request.num_ports) =>
           /\ last'.outcome = "CountMismatch"
           /\ iptables' = iptables
           /\ port_mappings' = port_mappings
           /\ db_file' = db_file]_vars

Before(events, earlier, later) ==
    \A i, j \in 1..Len(events) : (events[i] \in earlier /\ events[j] \in later) => i < j

\* C18: a successful non-temporary add inserts its rules, then enables forwarding once,
\* then inserts its rows and commits, and only then saves the rules.
C18_AddOrder ==
    [][(last'.op = "add" /\ last'.outcome = "ok" /\ ~last'.temporary
            /\ last'.mappings # <<>>) =>
           LET events == last'.events IN
           /\ Before(events, {"insert", "rule_exists"}, {"forward"})
           /\ Cardinality({i \in 1..Len(events) : events[i] = "forward"}) = 1
           /\ Before(events, {"forward"}, {"row"})
           /\ Before(events, {"row"}, {"commit"})
           /\ Before(events, {"commit"}, {"save", "save_failed"})]_vars

Copies(fw, rule) == Cardinality({k \in 1..Len(fw) : fw[k] = rule})

\* C19: a remove for an owner with n rows first attempts the n deletes, whether or not
\* one of them fails, each delete that succeeds takes its rule from the live rules, then
\* the owner's rows leave table and file, the rows of others stay, and n is returned.
C19_RemoveBestEffort ==
    [][(last'.op = "remove" /\ RowsOf(port_mappings, last'.owner) # <<>>) =>
           LET rows == RowsOf(port_mappings, last'.owner)
               n == Len(rows)
               events == last'.events
           IN  /\ last'.outcome = "ok"
               /\ last'.ret = n
               /\ Len(events) > n
               /\ \A i \in 1..n : events[i] \in {"delete", "delete_failed"}
               /\ \A i \in (n + 1)..Len(events) : events[i] \notin {"delete", "delete_failed"}
               /\ \E i \in (n + 1)..Len(events) : events[i] = "rows_deleted"
               /\ \A i \in 1..n :
                      LET rule == DnatRule(rows[i].protocol, rows[i].external_port,
                                           last'.owner, rows[i].internal_port)
                      IN  events[i] = "delete" =>
                              Copies(iptables', rule) = Copies(iptables, rule) - 1
               /\ RowsOf(port_mappings', last'.owner) = <<>>
               /\ RowsOf(db_file', last'.owner) = <<>>
               /\ RowsNotOf(port_mappings', last'.owner) = RowsNotOf(port_mappings, last'.owner)]_vars

\* C19 witness: a remove of two rows has gone on after its first delete failed and has
\* deleted the second rule.
C19_Witness ==
    /\ last.op = "remove" /\ last.ret = 2
    /\ last.events[1] = "delete_failed" /\ last.events[2] = "delete"
    /\ RowsOf(port_mappings, last.owner) = <<>>

\* C20: an add, remove or import in which the save of the rules fails does not end as
\* a success.
C20_SaveFailureReported ==
    [][(/\ last'.op \in {"add", "remove", "import"}
        /\ \E i \in 1..Len(last'.events) : last'.events[i] = "save_failed") =>
           last'.outcome # "ok"]_vars

\* Every live rule has a committed row with the same owner, ports and protocol.
NoOrphanedRules ==
    \A i \in 1..Len(iptables) :
        \E k \in 1..Len(db_file) :
            iptables[i] = DnatRule(db_file[k].protocol, db_file[k].external_port,
                                   db_file[k].container_ip, db_file[k].internal_port)

\* C21: a non-temporary add, succeeding or failing, that starts where every live rule
\* has its committed row ends where every live rule has its committed row; an add
\* that fails at a rule insertion leaves none of its earlier rules live.
C21_NoOrphanedRules ==
    [][(NoOrphanedRules /\ last'.op = "add" /\ ~last'.temporary) => NoOrphanedRules']_vars

\* The live rule is a DNAT rule of the PREROUTING chain on the managed interface.
ManagedLine(line) ==
    line.chain = "PREROUTING" /\ line.jump = "DNAT" /\ line.iface = network_interface

\* The row holds the tuple of the live rule.
RowOfLine(row, line) ==
    /\ row.container_ip = line.to_ip
    /\ row.external_port = line.dport
    /\ row.internal_port = line.to_port
    /\ row.protocol = line.protocol

\* C22: after a rebuild every live DNAT tuple on the managed interface has a row with
\* that owner, external port, internal port and protocol, every new row is the tuple
\* of such a rule that had no row, no earlier row is changed or deleted, and the
\* live rules are unchanged.
C22_RebuildCompletesStore ==
    [][last'.op = "rebuild" =>
           /\ \A i \in 1..Len(iptables) :
                  ManagedLine(iptables[i]) =>
                      \E k \in 1..Len(port_mappings') : RowOfLine(port_mappings'[k], iptables[i])
           /\ Len(port_mappings') >= Len(port_mappings)
           /\ SubSeq(port_mappings', 1, Len(port_mappings)) = port_mappings
           /\ \A k \in (Len(port_mappings) + 1)..Len(port_mappings') :
                  /\ \E i \in 1..Len(iptables) :
                         ManagedLine(iptables[i]) /\ RowOfLine(port_mappings'[k], iptables[i])
                  /\ ~\E j \in 1..Len(port_mappings) :
                         /\ port_mappings[j].container_ip = port_mappings'[k].container_ip
                         /\ port_mappings[j].external_port = port_mappings'[k].external_port
                         /\ port_mappings[j].internal_port = port_mappings'[k].internal_port
                         /\ port_mappings[j].protocol = port_mappings'[k].protocol
           /\ db_file' = port_mappings'
           /\ iptables' = iptables]_vars

\* C23: the rows a failed import inserted before its failing entry are not made durable
\* by the next committing call on the same manager: a following import commits no more
\* rows than it counts as imported, a following remove commits no row at all.
C23_FailedImportLeavesNoRow ==
    [][(last.op = "import" /\ last.outcome = "CommandFailed") =>
           /\ (last'.op = "import" /\ last'.outcome = "ok") =>
                  Len(db_file') <= Len(db_file) + last'.ret
           /\ (last'.op = "remove" /\ last'.outcome = "ok") =>
                  \A i \in 1..Len(db_file') :
                      \E k \in 1..Len(db_file) : db_file'[i] = db_file[k]]_vars

\* C24: a restore of a timestamp that has a backup ends with table, reservations and
\* live rules all equal to the backup's; a restore of a timestamp with no backup ends
\* as not found and changes nothing.
C24_RestoreIsOneUnit ==
    [][last'.op = "restore" =>
           IF last'.timestamp \in DOMAIN backup_dir
           THEN /\ last'.outcome = "ok"
                /\ db_file' = backup_dir[last'.timestamp].port_mappings
                /\ port_mappings' = backup_dir[last'.timestamp].port_mappings
                /\ reserved_ports' = backup_dir[last'.timestamp].reserved_ports
                /\ iptables' = backup_dir[last'.timestamp].rules
           ELSE /\ last'.outcome = "NotFound"
                /\ UNCHANGED <<port_mappings, db_file, reserved_ports, iptables, rules_v4,
                               backup_dir, adding>>]_vars

\* C25: however the steps of add calls for different owners interleave, the committed
\* table never holds one external port for two owners and the live rules never hold
\* two rules that redirect one (external port, protocol) to two owners.
C25_InterleavedAddsDisjoint ==
    /\ \A i, j \in 1..Len(db_file) :
           db_file[i].external_port = db_file[j].external_port =>
               db_file[i].container_ip = db_file[j].container_ip
    /\ \A i, j \in 1..Len(iptables) :
           (iptables[i].dport = iptables[j].dport /\ iptables[i].protocol = iptables[j].protocol)
               => iptables[i].to_ip = iptables[j].to_ip

\* C26: the live rules never hold two rules on the managed interface with the same
\* external port and protocol and different destinations.
C26_LiveRulesDisjoint ==
    \A i, j \in 1..Len(iptables) :
        (/\ ManagedLine(iptables[i]) /\ ManagedLine(iptables[j])
         /\ iptables[i].dport = iptables[j].dport
         /\ iptables[i].protocol = iptables[j].protocol) =>
            (/\ iptables[i].to_ip = iptables[j].to_ip
             /\ iptables[i].to_port = iptables[j].to_port)

\* The live rules that are not the rule of one of the owner's rows.
RulesNotOf(fw, rows, container_ip) ==
    SelectSeq(fw, LAMBDA r :
        ~\E k \in 1..Len(rows) :
            r = DnatRule(rows[k].protocol, rows[k].external_port, container_ip,
                         rows[k].internal_port))

\* C27: a successful remove leaves the rows of every other owner, the reserved ports
\* and every live rule that is not the rule of one of the owner's rows as they were.
C27_RemoveFrame ==
    [][(last'.op = "remove" /\ last'.outcome = "ok" /\ last'.ret > 0) =>
           LET rows == RowsOf(port_mappings, last'.owner) IN
               /\ RowsNotOf(port_mappings', last'.owner) = RowsNotOf(port_mappings, last'.owner)
               /\ RowsNotOf(db_file', last'.owner) = RowsNotOf(db_file, last'.owner)
               /\ reserved_ports' = reserved_ports
               /\ RulesNotOf(iptables', rows, last'.owner)
                      = RulesNotOf(iptables, rows, last'.owner)]_vars

\* C27 witness: a remove has ended while another owner has rows and a live rule on a
\* port the removed owner had, and a port is reserved.
C27_Witness ==
    /\ last.op = "remove" /\ last.outcome = "ok" /\ last.ret > 0
    /\ port_mappings # <<>>
    /\ reserved_ports # {}
    /\ \E i \in 1..Len(iptables) :
           /\ iptables[i].to_ip # last.owner
           /\ iptables[i].dport = last.mappings[1].external_port

\* No port of the block of num_ports ports from base on is assigned, reserved or bound.
FreeBlock(base, num_ports) ==
    \A port \in base..(base + num_ports - 1) :
        /\ port \notin ExternalPorts(port_mappings)
        /\ port \notin ReservedPortNumbers(reserved_ports)
        /\ port \notin listening

\* The block returned for num_ports is the first free one of the blocks that start at
\* port_start, port_start + num_ports, port_start + 2 * num_ports, ...
FirstFreeBlock(assigned, num_ports) ==
    LET base == assigned[1] IN
        /\ assigned = [i \in 1..num_ports |-> base + (i - 1)]
        /\ base >= port_start
        /\ (base - port_start) % num_ports = 0
        /\ FreeBlock(base, num_ports)
        /\ \A k \in 0..(((base - port_start) \div num_ports) - 1) :
               ~FreeBlock(port_start + k * num_ports, num_ports)

\* C28: a block search for num_ports >= 1 ports ends, and the block it returns is the
\* first conflict-free one of the blocks base, base + num_ports, base + 2 * num_ports, ...
C28_BlockSearchTerminates ==
    /\ [][(last'.op = "assign_ports" /\ adding[1].pc = "searching") =>
              FirstFreeBlock(last'.assigned, adding[1].num_ports)]_vars
    /\ (adding[1].pc = "searching") ~> (adding[1].pc = "idle")

\* C28 witness: a search has returned a block beyond the base port after rejecting
\* blocks for an assigned port, with a port reserved and a socket bound.
C28_Witness ==
    /\ last.op = "assign_ports" /\ adding[1].pc = "idle"
    /\ Len(last.assigned) >= 2
    /\ last.assigned[1] >= port_start + 2 * Len(last.assigned)
    /\ port_mappings # <<>> /\ reserved_ports # {} /\ listening # {}

====
